---- MODULE Spec2Model ----
(***************************************************************************)
(* Issue lifecycle and access control of the civic issue tracker           *)
(* (src/index.js, and the earlier revision of the same server kept as      *)
(* src/unnamed/part_000, which serves the same document store).            *)
(*                                                                         *)
(* A request is handled in steps: the step that starts it runs the         *)
(* middlewares and the handler up to its first store call; every later     *)
(* step applies one awaited store call and runs the handler up to the next *)
(* one.  Steps of different requests interleave freely, as the event loop  *)
(* and the store allow.                                                    *)
(***************************************************************************)
EXTENDS Integers, Sequences, FiniteSets, TLC

VARIABLES
  users,      \* usersCollection: email -> user document
  issues,     \* issuesCollection: _id -> issue document
  payments,   \* paymentsCollection: the inserted documents, in insertion order
  reqs,       \* per connection: the request in flight, or the one just answered
  nextId,     \* the next ObjectId the store hands out
  now         \* the wall clock, as read by new Date()

vars == <<users, issues, payments, reqs, nextId, now>>

----------------------------------------------------------------------------
(* Bounds of the model *)

MaxClock == 3     \* requests are received while the clock reads at most this
MaxIssues == 1    \* issues ever created

Slots == {"r1", "r2"}

----------------------------------------------------------------------------
(* Values *)

Undefined == "undefined"       \* a JavaScript undefined (a missing property)
Null == "null"                 \* a BSON null
Anonymous == "anonymous"       \* a client that sends no bearer credential

Citizens == {"a", "b"}
StaffEmails == {"s", "t"}
AdminEmails == {"adm"}
Emails == Citizens \cup StaffEmails \cup AdminEmails

\* x || d
OrElse(x, d) == IF x \in {Undefined, Null, ""} THEN d ELSE x

\* The driver serialises an undefined value as null (ignoreUndefined is off).
Bson(x) == IF x = Undefined THEN Null ELSE x

\* An optional field of a document: <<>> when the document lacks the field.
None == <<>>
Some(x) == <<x>>
IsSome(o) == Len(o) = 1

----------------------------------------------------------------------------
(* Requests *)

\* What a request body may carry besides the fields a handler reads by name.
NoBody ==
  [upvotedUsers |-> None, assignedTo |-> None, assignedStaff |-> None,
   reporterDistrict |-> None]

Idle ==
  [route |-> "", pc |-> "idle", caller |-> "", email |-> "", id |-> 0,
   arg |-> "", body |-> NoBody, date |-> 0, seen |-> "", code |-> 0, msg |-> "",
   target |-> "", result |-> {}]

NewReq(route, pc, caller, email, id, arg) ==
  [Idle EXCEPT !.route = route, !.pc = pc, !.caller = caller, !.email = email,
               !.id = id, !.arg = arg]

\* res.status(code).send({message: msg})
Respond(q, code, msg) ==
  [q EXCEPT !.pc = "done", !.code = code, !.msg = msg, !.date = 0, !.seen = "",
            !.body = NoBody]

\* No answer is on its way to a client.
Delivered == \A r \in Slots : reqs[r].pc # "done"

\* A connection takes a new request when it is free; the second connection is
\* used only while the first is busy.
CanStart(r) ==
  /\ Delivered
  /\ reqs[r].pc = "idle"
  /\ r = "r1" \/ reqs["r1"].pc # "idle"
  /\ now <= MaxClock

At(r, route, pc) == Delivered /\ reqs[r].route = route /\ reqs[r].pc = pc

Answer(r, code, msg) == reqs' = [reqs EXCEPT ![r] = Respond(@, code, msg)]

Goto(r, pc) == reqs' = [reqs EXCEPT ![r].pc = pc]

\* The handler reads the clock (new Date()) and goes on to its next store call.
GotoDated(r, pc) ==
  /\ reqs' = [reqs EXCEPT ![r].pc = pc, ![r].date = now]
  /\ now' = now + 1

\* The client has the answer; the connection is free again.
Close(r) ==
  /\ reqs[r].pc = "done"
  /\ reqs' = [reqs EXCEPT ![r] = Idle]
  /\ UNCHANGED <<users, issues, payments, nextId, now>>

\* verifyFbToken: the verified email, or none when no credential is sent.
verifyFbToken(caller) == IF caller = Anonymous THEN Undefined ELSE caller

\* A route registered with verifyFbToken answers 401 without a credential and
\* otherwise runs the handler with req.decoded_email set.
Protected(route, pc, caller, id, arg) ==
  IF verifyFbToken(caller) = Undefined
    THEN Respond(NewReq(route, "", caller, Undefined, id, arg), 401, "Unauthorized")
    ELSE NewReq(route, pc, caller, verifyFbToken(caller), id, arg)

\* A route registered without verifyFbToken: req.decoded_email is never set.
Unprotected(route, pc, caller, id, arg) ==
  NewReq(route, pc, caller, Undefined, id, arg)

\* verifyAdmin, on the user document found for req.decoded_email
verifyAdmin(email) == email \in DOMAIN users /\ users[email].role = "admin"

----------------------------------------------------------------------------
(* The document store *)

IssueIds == 1..MaxIssues

Exists(id) == id \in DOMAIN issues

\* updateOne({_id: id}, {$set: {status}}): no document matches a missing id.
SetStatus(id, status) ==
  IF Exists(id) THEN [issues EXCEPT ![id].status = status] ELSE issues

\* updateOne({_id: id}, {$set: {assignedTo: {email, name}, status: "In-Progress"}})
SetAssignment(id, staffEmail, staffName) ==
  IF Exists(id)
    THEN [issues EXCEPT ![id].assignedTo = Some([email |-> staffEmail,
                                                 name |-> OrElse(staffName, Null)]),
                        ![id].status = "In-Progress"]
    ELSE issues

\* updateOne({_id: id}, {$push: {timeline: item}})
PushTimeline(id, item) ==
  IF Exists(id)
    THEN [issues EXCEPT ![id].timeline = Append(@, item)]
    ELSE issues

\* updateOne({_id: id}, {$set: {status}, $push: {timeline: item}})
SetStatusAndPush(id, status, item) ==
  IF Exists(id)
    THEN [issues EXCEPT ![id].status = status, ![id].timeline = Append(@, item)]
    ELSE issues

Entry(status, message, updatedBy, role) ==
  [status |-> status, message |-> message, updatedBy |-> updatedBy, role |-> role]

\* addTimelineEntry builds the item; its date is read when the helper is called.
TimelineItem(entry, date) ==
  [status |-> OrElse(entry.status, Null),
   message |-> OrElse(entry.message, ""),
   updatedBy |-> OrElse(entry.updatedBy, "System"),
   role |-> OrElse(entry.role, "System"),
   date |-> date]

\* A timeline item a handler writes itself, without the helper's defaults.
InlineItem(status, message, updatedBy, role, date) ==
  [status |-> Bson(status), message |-> Bson(message), updatedBy |-> Bson(updatedBy),
   role |-> role, date |-> date]

----------------------------------------------------------------------------
(* Initial state: an empty issue and payment store; the registered users. *)

\* users[e] is the first stored user document whose email is e, and
\* users[e].copies the number of stored documents with that email.
RoleOf(e) ==
  IF e \in AdminEmails THEN "admin" ELSE IF e \in StaffEmails THEN "staff" ELSE "citizen"

Init ==
  /\ users = [e \in Emails |-> [role |-> RoleOf(e), isPremium |-> FALSE, copies |-> 1]]
  /\ issues = <<>>
  /\ payments = <<>>
  /\ reqs = [r \in Slots |-> Idle]
  /\ nextId = 1
  /\ now = 1

----------------------------------------------------------------------------
(* POST /issues (index.js) *)

NewIssue(owner, date, reporterDistrict) ==
  [userEmail |-> owner,
   reporterDistrict |-> Some(reporterDistrict),
   status |-> "Pending",
   priority |-> "Normal",
   upvotes |-> 0,
   upvotedUsers |-> None,
   assignedTo |-> None,
   assignedStaff |-> None,
   timeline |-> << [status |-> "Pending",
                    message |-> "Issue reported by citizen",
                    updatedBy |-> owner,
                    role |-> "Citizen",
                    date |-> date] >>]

\* The issue object is built, with its dates, before insertOne is called.
PostIssues_Start(r, caller, reporterDistrict) ==
  /\ CanStart(r)
  /\ nextId <= MaxIssues
  /\ LET q == Protected("POST /issues", "insert", caller, 0, reporterDistrict) IN
       IF q.pc = "done"
         THEN reqs' = [reqs EXCEPT ![r] = q] /\ UNCHANGED now
         ELSE IF reporterDistrict \in {Undefined, ""}
           THEN reqs' = [reqs EXCEPT ![r] = Respond(q, 400, "Missing required fields")]
                /\ UNCHANGED now
           ELSE reqs' = [reqs EXCEPT ![r] = [q EXCEPT !.date = now]] /\ now' = now + 1
  /\ UNCHANGED <<users, issues, payments, nextId>>

PostIssues_Insert(r) ==
  /\ At(r, "POST /issues", "insert")
  /\ nextId <= MaxIssues
  /\ issues' = issues @@ (nextId :> NewIssue(reqs[r].email, reqs[r].date, reqs[r].arg))
  /\ nextId' = nextId + 1
  /\ reqs' = [reqs EXCEPT ![r] = Respond([@ EXCEPT !.id = nextId], 201,
                                         "Issue created successfully")]
  /\ UNCHANGED <<users, payments, now>>

----------------------------------------------------------------------------
(* POST /issues (part_000): the request body is stored as sent, with        *)
(* createdAt, status, priority, upvotes and userEmail overwritten.          *)

LegacyIssue(body, owner) ==
  [userEmail |-> owner,
   reporterDistrict |-> body.reporterDistrict,
   status |-> "Pending",
   priority |-> "Normal",
   upvotes |-> 0,
   upvotedUsers |-> body.upvotedUsers,
   assignedTo |-> body.assignedTo,
   assignedStaff |-> body.assignedStaff,
   timeline |-> <<>>]

LegacyPostIssues_Start(r, caller, body) ==
  /\ CanStart(r)
  /\ nextId <= MaxIssues
  /\ LET q == Protected("POST /issues (part_000)", "insert", caller, 0, "") IN
       IF q.pc = "done"
         THEN reqs' = [reqs EXCEPT ![r] = q] /\ UNCHANGED now
         ELSE reqs' = [reqs EXCEPT ![r] = [q EXCEPT !.body = body]] /\ now' = now + 1
  /\ UNCHANGED <<users, issues, payments, nextId>>

LegacyPostIssues_Insert(r) ==
  /\ At(r, "POST /issues (part_000)", "insert")
  /\ nextId <= MaxIssues
  /\ issues' = issues @@ (nextId :> LegacyIssue(reqs[r].body, reqs[r].email))
  /\ nextId' = nextId + 1
  /\ reqs' = [reqs EXCEPT ![r] = Respond([@ EXCEPT !.id = nextId], 201,
                                         "Issue created successfully")]
  /\ UNCHANGED <<users, payments, now>>

----------------------------------------------------------------------------
(* POST /issues/:id/status *)

PostStatus_allowed == {"Pending", "In-Progress", "Resolved", "Closed"}

PostStatus_Start(r, caller, id, status) ==
  /\ CanStart(r)
  /\ reqs' = [reqs EXCEPT ![r] =
       IF status \notin PostStatus_allowed
         THEN Respond(Unprotected("POST /issues/:id/status", "", caller, id, status),
                      400, "Invalid status")
         ELSE Unprotected("POST /issues/:id/status", "update", caller, id, status)]
  /\ UNCHANGED <<users, issues, payments, nextId, now>>

PostStatus_Update(r) ==
  /\ At(r, "POST /issues/:id/status", "update")
  /\ issues' = SetStatus(reqs[r].id, reqs[r].arg)
  /\ GotoDated(r, "timeline")
  /\ UNCHANGED <<users, payments, nextId>>

PostStatus_Timeline(r) ==
  /\ At(r, "POST /issues/:id/status", "timeline")
  /\ issues' = PushTimeline(reqs[r].id,
       TimelineItem(Entry(reqs[r].arg, "Status changed to " \o reqs[r].arg,
                          reqs[r].email, "Staff"), reqs[r].date))
  /\ Answer(r, 200, "Status updated and timeline entry added")
  /\ UNCHANGED <<users, payments, nextId, now>>

----------------------------------------------------------------------------
(* PATCH /staff/issues/:id/status *)

StaffStatus_Start(r, caller, id, status) ==
  /\ CanStart(r)
  /\ reqs' = [reqs EXCEPT ![r] =
       Protected("PATCH /staff/issues/:id/status", "find", caller, id, status)]
  /\ UNCHANGED <<users, issues, payments, nextId, now>>

StaffStatus_Find(r) ==
  /\ At(r, "PATCH /staff/issues/:id/status", "find")
  /\ IF ~Exists(reqs[r].id)
       THEN Answer(r, 404, "Issue not found") /\ UNCHANGED now
       ELSE GotoDated(r, "update")
  /\ UNCHANGED <<users, issues, payments, nextId>>

StaffStatus_Update(r) ==
  /\ At(r, "PATCH /staff/issues/:id/status", "update")
  /\ issues' = SetStatusAndPush(reqs[r].id, Bson(reqs[r].arg),
       InlineItem(reqs[r].arg, Undefined, reqs[r].email, "Staff", reqs[r].date))
  /\ Goto(r, "refetch")
  /\ UNCHANGED <<users, payments, nextId, now>>

\* res.send(updatedIssue)
StaffStatus_Refetch(r) ==
  /\ At(r, "PATCH /staff/issues/:id/status", "refetch")
  /\ Answer(r, 200, "")
  /\ UNCHANGED <<users, issues, payments, nextId, now>>

----------------------------------------------------------------------------
(* PATCH /issues/:id/status *)

PatchStatus_allowed(status) ==
  CASE status = "Pending" -> {"In-Progress"}
    [] status = "In-Progress" -> {"Working"}
    [] status = "Working" -> {"Resolved"}
    [] status = "Resolved" -> {"Closed"}
    [] OTHER -> {}

\* issue.assignedStaff?.email
AssignedStaffEmail(issue) ==
  IF IsSome(issue.assignedStaff) THEN issue.assignedStaff[1].email ELSE Undefined

PatchStatus_Start(r, caller, id, status) ==
  /\ CanStart(r)
  /\ reqs' = [reqs EXCEPT ![r] =
       Protected("PATCH /issues/:id/status", "find", caller, id, status)]
  /\ UNCHANGED <<users, issues, payments, nextId, now>>

PatchStatus_Find(r) ==
  /\ At(r, "PATCH /issues/:id/status", "find")
  /\ IF ~Exists(reqs[r].id)
       THEN Answer(r, 404, "Issue not found") /\ UNCHANGED now
       ELSE IF AssignedStaffEmail(issues[reqs[r].id]) # reqs[r].email
         THEN Answer(r, 403, "Forbidden") /\ UNCHANGED now
         ELSE IF reqs[r].arg \notin PatchStatus_allowed(issues[reqs[r].id].status)
           THEN Answer(r, 400, "Invalid status transition") /\ UNCHANGED now
           ELSE GotoDated(r, "update")
  /\ UNCHANGED <<users, issues, payments, nextId>>

PatchStatus_Update(r) ==
  /\ At(r, "PATCH /issues/:id/status", "update")
  /\ issues' = SetStatusAndPush(reqs[r].id, Bson(reqs[r].arg),
       InlineItem(reqs[r].arg, "Status changed to " \o reqs[r].arg, reqs[r].email,
                  "Staff", reqs[r].date))
  /\ Answer(r, 200, "Status updated successfully")
  /\ UNCHANGED <<users, payments, nextId, now>>

----------------------------------------------------------------------------
(* POST /admin/issues/:id/assign (verifyFbToken, verifyAdmin) *)

AssignedMessage(staffName, staffEmail) ==
  "Issue assigned to Staff: " \o OrElse(staffName, staffEmail)

AdminAssign_Start(r, caller, id, staffEmail) ==
  /\ CanStart(r)
  /\ reqs' = [reqs EXCEPT ![r] =
       Protected("POST /admin/issues/:id/assign", "verifyAdmin", caller, id, staffEmail)]
  /\ UNCHANGED <<users, issues, payments, nextId, now>>

AdminAssign_VerifyAdmin(r) ==
  /\ At(r, "POST /admin/issues/:id/assign", "verifyAdmin")
  /\ IF ~verifyAdmin(reqs[r].email)
       THEN Answer(r, 403, "Forbidden: admin only")
       ELSE IF reqs[r].arg = Undefined
         THEN Answer(r, 400, "Missing staffEmail")
         ELSE Goto(r, "find")
  /\ UNCHANGED <<users, issues, payments, nextId, now>>

AdminAssign_Find(r) ==
  /\ At(r, "POST /admin/issues/:id/assign", "find")
  /\ IF ~Exists(reqs[r].id)
       THEN Answer(r, 404, "Issue not found")
       ELSE IF IsSome(issues[reqs[r].id].assignedTo)
         THEN Answer(r, 400, "Already assigned")
         ELSE Goto(r, "update")
  /\ UNCHANGED <<users, issues, payments, nextId, now>>

AdminAssign_Update(r) ==
  /\ At(r, "POST /admin/issues/:id/assign", "update")
  /\ issues' = SetAssignment(reqs[r].id, reqs[r].arg, Undefined)
  /\ GotoDated(r, "timeline")
  /\ UNCHANGED <<users, payments, nextId>>

AdminAssign_Timeline(r) ==
  /\ At(r, "POST /admin/issues/:id/assign", "timeline")
  /\ issues' = PushTimeline(reqs[r].id,
       TimelineItem(Entry("In-Progress", AssignedMessage(Undefined, reqs[r].arg),
                          reqs[r].email, "Admin"), reqs[r].date))
  /\ Answer(r, 200, "Staff assigned")
  /\ UNCHANGED <<users, payments, nextId, now>>

----------------------------------------------------------------------------
(* POST /issues/:id/assign *)

PostAssign_Start(r, caller, id, staffEmail) ==
  /\ CanStart(r)
  /\ reqs' = [reqs EXCEPT ![r] =
       IF staffEmail = Undefined
         THEN Respond(Unprotected("POST /issues/:id/assign", "", caller, id, staffEmail),
                      400, "Missing staff email")
         ELSE Unprotected("POST /issues/:id/assign", "update", caller, id, staffEmail)]
  /\ UNCHANGED <<users, issues, payments, nextId, now>>

PostAssign_Update(r) ==
  /\ At(r, "POST /issues/:id/assign", "update")
  /\ issues' = SetAssignment(reqs[r].id, reqs[r].arg, Undefined)
  /\ GotoDated(r, "timeline")
  /\ UNCHANGED <<users, payments, nextId>>

PostAssign_Timeline(r) ==
  /\ At(r, "POST /issues/:id/assign", "timeline")
  /\ issues' = PushTimeline(reqs[r].id,
       TimelineItem(Entry("In-Progress", AssignedMessage(Undefined, reqs[r].arg),
                          reqs[r].email, "Admin"), reqs[r].date))
  /\ Answer(r, 200, "Staff assigned and timeline updated")
  /\ UNCHANGED <<users, payments, nextId, now>>

----------------------------------------------------------------------------
(* POST /admin/issues/:id/reject (verifyFbToken, verifyAdmin) *)

\* The message without the reason the admin gave
RejectedMessage_noReason(reason) == "Issue rejected by admin."

RejectedMessage(reason) ==
  "Issue rejected by admin. Reason: " \o OrElse(reason, "Not specified")

AdminReject_Start(r, caller, id, reason) ==
  /\ CanStart(r)
  /\ reqs' = [reqs EXCEPT ![r] =
       Protected("POST /admin/issues/:id/reject", "verifyAdmin", caller, id, reason)]
  /\ UNCHANGED <<users, issues, payments, nextId, now>>

AdminReject_VerifyAdmin(r) ==
  /\ At(r, "POST /admin/issues/:id/reject", "verifyAdmin")
  /\ IF ~verifyAdmin(reqs[r].email)
       THEN Answer(r, 403, "Forbidden: admin only")
       ELSE Goto(r, "find")
  /\ UNCHANGED <<users, issues, payments, nextId, now>>

AdminReject_Find(r) ==
  /\ At(r, "POST /admin/issues/:id/reject", "find")
  /\ IF ~Exists(reqs[r].id)
       THEN Answer(r, 404, "Issue not found")
       ELSE IF issues[reqs[r].id].status # "Pending"
         THEN Answer(r, 400, "Only pending issues can be rejected")
         ELSE Goto(r, "update")
  /\ UNCHANGED <<users, issues, payments, nextId, now>>

AdminReject_Update(r) ==
  /\ At(r, "POST /admin/issues/:id/reject", "update")
  /\ issues' = SetStatus(reqs[r].id, "Closed")
  /\ GotoDated(r, "timeline")
  /\ UNCHANGED <<users, payments, nextId>>

AdminReject_Timeline(r) ==
  /\ At(r, "POST /admin/issues/:id/reject", "timeline")
  /\ issues' = PushTimeline(reqs[r].id,
       TimelineItem(Entry("Closed", RejectedMessage(reqs[r].arg), reqs[r].email, "Admin"),
                    reqs[r].date))
  /\ Answer(r, 200, "Issue rejected")
  /\ UNCHANGED <<users, payments, nextId, now>>

----------------------------------------------------------------------------
(* POST /issues/:id/reject *)

PostReject_Start(r, caller, id, reason) ==
  /\ CanStart(r)
  /\ reqs' = [reqs EXCEPT ![r] =
       Unprotected("POST /issues/:id/reject", "update", caller, id, reason)]
  /\ UNCHANGED <<users, issues, payments, nextId, now>>

PostReject_Update(r) ==
  /\ At(r, "POST /issues/:id/reject", "update")
  /\ issues' = SetStatus(reqs[r].id, "Closed")
  /\ GotoDated(r, "timeline")
  /\ UNCHANGED <<users, payments, nextId>>

PostReject_Timeline(r) ==
  /\ At(r, "POST /issues/:id/reject", "timeline")
  /\ issues' = PushTimeline(reqs[r].id,
       TimelineItem(Entry("Closed", RejectedMessage(reqs[r].arg), reqs[r].email, "Admin"),
                    reqs[r].date))
  /\ Answer(r, 200, "Issue rejected and closed")
  /\ UNCHANGED <<users, payments, nextId, now>>

----------------------------------------------------------------------------
(* PATCH /issues/upvote/:id *)

\* The elements of the issue's upvotedUsers array (none when the field is missing)
Voters(issue) ==
  IF IsSome(issue.upvotedUsers)
    THEN {issue.upvotedUsers[1][i] : i \in DOMAIN issue.upvotedUsers[1]}
    ELSE {}

\* mutant: the second findOne's answer is not looked at
HasVoted_unchecked(id, userEmail) == FALSE

\* findOne({_id: id, upvotedUsers: userEmail}): an array field matches a value
\* it contains, and a null value also matches a document without the field.
HasVoted(id, userEmail) ==
  /\ Exists(id)
  /\ \/ Bson(userEmail) \in Voters(issues[id])
     \/ Bson(userEmail) = Null /\ ~IsSome(issues[id].upvotedUsers)

\* updateOne({_id: id}, {$inc: {upvotes: 1}, $push: {upvotedUsers: userEmail}})
AddUpvote(id, userEmail) ==
  IF Exists(id)
    THEN [issues EXCEPT
           ![id].upvotes = @ + 1,
           ![id].upvotedUsers =
             IF IsSome(@) THEN Some(Append(@[1], Bson(userEmail)))
                          ELSE Some(<<Bson(userEmail)>>)]
    ELSE issues

Upvote_Start(r, caller, id) ==
  /\ CanStart(r)
  /\ reqs' = [reqs EXCEPT ![r] = Unprotected("PATCH /issues/upvote/:id", "find", caller, id, "")]
  /\ UNCHANGED <<users, issues, payments, nextId, now>>

Upvote_Find(r) ==
  /\ At(r, "PATCH /issues/upvote/:id", "find")
  /\ IF ~Exists(reqs[r].id)
       THEN Answer(r, 404, "Issue not found")
       ELSE IF issues[reqs[r].id].userEmail = reqs[r].email
         THEN Answer(r, 400, "You cannot upvote your own issue")
         ELSE reqs' = [reqs EXCEPT ![r].pc = "hasVoted",
                                   ![r].seen = issues[reqs[r].id].status]
  /\ UNCHANGED <<users, issues, payments, nextId, now>>

Upvote_HasVoted(r) ==
  /\ At(r, "PATCH /issues/upvote/:id", "hasVoted")
  /\ IF HasVoted(reqs[r].id, reqs[r].email)
       THEN Answer(r, 400, "You have already upvoted this issue")
       ELSE Goto(r, "update")
  /\ UNCHANGED <<users, issues, payments, nextId, now>>

Upvote_Update(r) ==
  /\ At(r, "PATCH /issues/upvote/:id", "update")
  /\ issues' = AddUpvote(reqs[r].id, reqs[r].email)
  /\ GotoDated(r, "timeline")
  /\ UNCHANGED <<users, payments, nextId>>

Upvote_Timeline(r) ==
  /\ At(r, "PATCH /issues/upvote/:id", "timeline")
  /\ issues' = PushTimeline(reqs[r].id,
       TimelineItem(Entry(OrElse(reqs[r].seen, "Pending"),
                          "Issue upvoted by " \o reqs[r].email,
                          reqs[r].email, "Citizen"), reqs[r].date))
  /\ Answer(r, 200, "Upvoted successfully")
  /\ UNCHANGED <<users, payments, nextId, now>>

----------------------------------------------------------------------------
(* The checkout provider: stripe.checkout.sessions.retrieve(sessionId)      *)

MaxPayments == 2   \* confirmations are received while fewer payments are stored

\* The checkout sessions that exist: one made by /create-boost-session for
\* issue 1, one made by /subscribe, both for customer "a".
SessionIds == {"cs_boost", "cs_sub"}

Session(sessionId) ==
  [id |-> sessionId,
   customer_email |-> "a",
   issueId |-> IF sessionId = "cs_boost" THEN Some(1) ELSE None]

\* stripe.checkout.sessions.retrieve answers any session as if it existed
retrieve_anySession(sessionId) == Some(Session(sessionId))

\* stripe.checkout.sessions.retrieve(sessionId): the session, or none when the
\* provider knows no such session and the call throws
retrieve(sessionId) ==
  IF sessionId \in SessionIds THEN Some(Session(sessionId)) ELSE None

\* !sessionId
MissingSessionId(sessionId) == sessionId \in {Undefined, ""}

\* The external transaction id a payment document was stored under
TxOf(p) == IF p.transactionId # Undefined THEN p.transactionId ELSE p.sessionId

----------------------------------------------------------------------------
(* GET /boost-success (verifyFbToken) *)

BoostPayment(session) ==
  [issueId |-> session.issueId, email |-> session.customer_email,
   transactionId |-> session.id, sessionId |-> Undefined]

\* updateOne({_id: id}, {$set: {priority: "High"}})
SetPriorityHigh(id) ==
  IF Exists(id) THEN [issues EXCEPT ![id].priority = "High"] ELSE issues

Boost_Start(r, caller, sessionId) ==
  /\ CanStart(r)
  /\ Len(payments) < MaxPayments
  /\ reqs' = [reqs EXCEPT ![r] =
       IF verifyFbToken(caller) # Undefined /\ MissingSessionId(sessionId)
         THEN Respond(Protected("GET /boost-success", "", caller, 0, sessionId),
                      400, "Missing session_id")
         ELSE Protected("GET /boost-success", "retrieve", caller, 0, sessionId)]
  /\ UNCHANGED <<users, issues, payments, nextId, now>>

Boost_Retrieve(r) ==
  /\ At(r, "GET /boost-success", "retrieve")
  /\ IF ~IsSome(retrieve(reqs[r].arg))
       THEN Answer(r, 500, "Boost success failed")
       ELSE IF ~IsSome(Session(reqs[r].arg).issueId)
         THEN Answer(r, 400, "Missing issueId in session metadata")
         ELSE reqs' = [reqs EXCEPT ![r].pc = "update",
                                   ![r].id = Session(reqs[r].arg).issueId[1]]
  /\ UNCHANGED <<users, issues, payments, nextId, now>>

Boost_Update(r) ==
  /\ At(r, "GET /boost-success", "update")
  /\ issues' = SetPriorityHigh(reqs[r].id)
  /\ Goto(r, "insert")
  /\ UNCHANGED <<users, payments, nextId, now>>

Boost_Insert(r) ==
  /\ At(r, "GET /boost-success", "insert")
  /\ payments' = Append(payments, BoostPayment(Session(reqs[r].arg)))
  /\ GotoDated(r, "timeline")
  /\ UNCHANGED <<users, issues, nextId>>

Boost_Timeline(r) ==
  /\ At(r, "GET /boost-success", "timeline")
  /\ issues' = PushTimeline(reqs[r].id,
       TimelineItem(Entry(Null, "Issue boosted by payment",
                          Session(reqs[r].arg).customer_email, "Citizen"), reqs[r].date))
  /\ Answer(r, 200, "Payment Success - Issue Boosted")
  /\ UNCHANGED <<users, payments, nextId, now>>

----------------------------------------------------------------------------
(* GET /subscribe-success *)

SubscriptionPayment(session) ==
  [issueId |-> None, email |-> session.customer_email,
   transactionId |-> Undefined, sessionId |-> session.id]

\* updateOne({email}, {$set: {isPremium: true, subscriptionDate}})
SetPremium(email) ==
  IF email \in DOMAIN users THEN [users EXCEPT ![email].isPremium = TRUE] ELSE users

Subscribe_Start(r, caller, sessionId) ==
  /\ CanStart(r)
  /\ Len(payments) < MaxPayments
  /\ reqs' = [reqs EXCEPT ![r] =
       IF MissingSessionId(sessionId)
         THEN Respond(Unprotected("GET /subscribe-success", "", caller, 0, sessionId),
                      400, "Missing session_id")
         ELSE Unprotected("GET /subscribe-success", "retrieve", caller, 0, sessionId)]
  /\ UNCHANGED <<users, issues, payments, nextId, now>>

Subscribe_Retrieve(r) ==
  /\ At(r, "GET /subscribe-success", "retrieve")
  /\ IF ~IsSome(retrieve(reqs[r].arg))
       THEN Answer(r, 500, "Subscription success failed")
       ELSE Goto(r, "update")
  /\ UNCHANGED <<users, issues, payments, nextId, now>>

Subscribe_Update(r) ==
  /\ At(r, "GET /subscribe-success", "update")
  /\ users' = SetPremium(Session(reqs[r].arg).customer_email)
  /\ Goto(r, "insert")
  /\ UNCHANGED <<issues, payments, nextId, now>>

Subscribe_Insert(r) ==
  /\ At(r, "GET /subscribe-success", "insert")
  /\ payments' = Append(payments, SubscriptionPayment(Session(reqs[r].arg)))
  /\ Answer(r, 200, "Subscription successful")
  /\ UNCHANGED <<users, issues, nextId, now>>

----------------------------------------------------------------------------
(* DELETE /issues/:id (verifyFbToken) *)

\* deleteOne({_id: id})
DeleteIssue(id) == [i \in DOMAIN issues \ {id} |-> issues[i]]

Delete_Start(r, caller, id) ==
  /\ CanStart(r)
  /\ reqs' = [reqs EXCEPT ![r] = Protected("DELETE /issues/:id", "find", caller, id, "")]
  /\ UNCHANGED <<users, issues, payments, nextId, now>>

Delete_Find(r) ==
  /\ At(r, "DELETE /issues/:id", "find")
  /\ IF ~Exists(reqs[r].id)
       THEN Answer(r, 404, "Issue not found")
       ELSE IF issues[reqs[r].id].userEmail # reqs[r].email
         THEN Answer(r, 403, "Forbidden: only owner can delete this issue")
         ELSE Goto(r, "delete")
  /\ UNCHANGED <<users, issues, payments, nextId, now>>

Delete_Delete(r) ==
  /\ At(r, "DELETE /issues/:id", "delete")
  /\ issues' = DeleteIssue(reqs[r].id)
  /\ Answer(r, 200, "Issue deleted successfully")
  /\ UNCHANGED <<users, payments, nextId, now>>

----------------------------------------------------------------------------
(* DELETE /issues/:id (part_000): registered without verifyFbToken *)

LegacyDelete_Start(r, caller, id) ==
  /\ CanStart(r)
  /\ reqs' = [reqs EXCEPT ![r] =
       Unprotected("DELETE /issues/:id (part_000)", "find", caller, id, "")]
  /\ UNCHANGED <<users, issues, payments, nextId, now>>

LegacyDelete_Find(r) ==
  /\ At(r, "DELETE /issues/:id (part_000)", "find")
  /\ IF ~Exists(reqs[r].id)
       THEN Answer(r, 404, "Issue not found")
       ELSE IF issues[reqs[r].id].status # "Pending"
         THEN Answer(r, 400, "Only pending issues can be deleted")
         ELSE Goto(r, "delete")
  /\ UNCHANGED <<users, issues, payments, nextId, now>>

LegacyDelete_Delete(r) ==
  /\ At(r, "DELETE /issues/:id (part_000)", "delete")
  /\ issues' = DeleteIssue(reqs[r].id)
  /\ Answer(r, 200, "Issue deleted successfully")
  /\ UNCHANGED <<users, payments, nextId, now>>

----------------------------------------------------------------------------
(* PATCH /users/:email/role (verifyFbToken) *)

Roles == {"citizen", "staff", "admin"}

\* updateOne({email}, {$set: {role}})
SetRole(email, role) ==
  IF email \in DOMAIN users THEN [users EXCEPT ![email].role = role] ELSE users

UserRole_Start(r, caller, email, role) ==
  /\ CanStart(r)
  /\ LET q == [Protected("PATCH /users/:email/role", "update", caller, 0, role)
                 EXCEPT !.target = email] IN
       reqs' = [reqs EXCEPT ![r] =
         IF q.pc # "done" /\ role \notin Roles THEN Respond(q, 400, "Invalid role") ELSE q]
  /\ UNCHANGED <<users, issues, payments, nextId, now>>

UserRole_Update(r) ==
  /\ At(r, "PATCH /users/:email/role", "update")
  /\ users' = SetRole(reqs[r].target, reqs[r].arg)
  /\ IF reqs[r].target \notin DOMAIN users
       THEN Answer(r, 404, "User not found")
       ELSE Answer(r, 200, "User role updated")
  /\ UNCHANGED <<issues, payments, nextId, now>>

----------------------------------------------------------------------------
(* PATCH /profile (verifyFbToken): the body is applied with $set as sent;    *)
(* here it is {role: arg}.                                                   *)

Profile_Start(r, caller, role) ==
  /\ CanStart(r)
  /\ reqs' = [reqs EXCEPT ![r] =
       [Protected("PATCH /profile", "update", caller, 0, role) EXCEPT !.target = caller]]
  /\ UNCHANGED <<users, issues, payments, nextId, now>>

\* result.modifiedCount is 0 when no document matches or nothing differs
Profile_Update(r) ==
  /\ At(r, "PATCH /profile", "update")
  /\ users' = SetRole(reqs[r].email, reqs[r].arg)
  /\ IF users' = users THEN Answer(r, 400, "Nothing updated") ELSE Goto(r, "refetch")
  /\ UNCHANGED <<issues, payments, nextId, now>>

\* res.send(updatedUser)
Profile_Refetch(r) ==
  /\ At(r, "PATCH /profile", "refetch")
  /\ Answer(r, 200, "")
  /\ UNCHANGED <<users, issues, payments, nextId, now>>

----------------------------------------------------------------------------
(* PATCH /admin/users/:email/make-admin (verifyFbToken, verifyAdmin) *)

MakeAdmin_Start(r, caller, email) ==
  /\ CanStart(r)
  /\ reqs' = [reqs EXCEPT ![r] =
       [Protected("PATCH /admin/users/:email/make-admin", "verifyAdmin", caller, 0, "")
          EXCEPT !.target = email]]
  /\ UNCHANGED <<users, issues, payments, nextId, now>>

MakeAdmin_VerifyAdmin(r) ==
  /\ At(r, "PATCH /admin/users/:email/make-admin", "verifyAdmin")
  /\ IF ~verifyAdmin(reqs[r].email)
       THEN Answer(r, 403, "Forbidden: admin only")
       ELSE Goto(r, "update")
  /\ UNCHANGED <<users, issues, payments, nextId, now>>

MakeAdmin_Update(r) ==
  /\ At(r, "PATCH /admin/users/:email/make-admin", "update")
  /\ users' = SetRole(reqs[r].target, "admin")
  /\ IF reqs[r].target \notin DOMAIN users
       THEN Answer(r, 404, "User not found")
       ELSE Answer(r, 200, "User promoted to admin")
  /\ UNCHANGED <<issues, payments, nextId, now>>

----------------------------------------------------------------------------
(* POST /users *)

\* String.prototype.toLowerCase, on the emails the clients send
Lower(e) == IF e = "C" THEN "c" ELSE e

\* insertOne(user): the collection has no unique index on email
InsertUser(email, user) ==
  IF email \in DOMAIN users
    THEN [users EXCEPT ![email].copies = @ + 1]
    ELSE users @@ (email :> user)

\* user.role = "citizen"; user.createdAt = new Date()
PostUsers_Start(r, caller, email) ==
  /\ CanStart(r)
  /\ reqs' = [reqs EXCEPT ![r] =
       [Unprotected("POST /users", "find", caller, 0, "") EXCEPT !.target = email]]
  /\ now' = now + 1
  /\ UNCHANGED <<users, issues, payments, nextId>>

PostUsers_Find(r) ==
  /\ At(r, "POST /users", "find")
  /\ IF reqs[r].target \in DOMAIN users
       THEN Answer(r, 409, "User already exists")
       ELSE Goto(r, "insert")
  /\ UNCHANGED <<users, issues, payments, nextId, now>>

PostUsers_Insert(r) ==
  /\ At(r, "POST /users", "insert")
  /\ users' = InsertUser(reqs[r].target,
                         [role |-> "citizen", isPremium |-> FALSE, copies |-> 1])
  /\ Answer(r, 201, "User created successfully")
  /\ UNCHANGED <<issues, payments, nextId, now>>

----------------------------------------------------------------------------
(* POST /users of part_000: the request body is stored as sent *)

\* user = req.body; user.createdAt = new Date()
LegacyPostUsers_Start(r, caller, email, role) ==
  /\ CanStart(r)
  /\ reqs' = [reqs EXCEPT ![r] =
       [Unprotected("POST /users (part_000)", "find", caller, 0, role)
          EXCEPT !.target = email]]
  /\ now' = now + 1
  /\ UNCHANGED <<users, issues, payments, nextId>>

LegacyPostUsers_Find(r) ==
  /\ At(r, "POST /users (part_000)", "find")
  /\ IF reqs[r].target \in DOMAIN users
       THEN Answer(r, 409, "User already exists")
       ELSE Goto(r, "insert")
  /\ UNCHANGED <<users, issues, payments, nextId, now>>

LegacyPostUsers_Insert(r) ==
  /\ At(r, "POST /users (part_000)", "insert")
  /\ users' = InsertUser(reqs[r].target,
                         [role |-> reqs[r].arg, isPremium |-> FALSE, copies |-> 1])
  /\ Answer(r, 201, "User created successfully")
  /\ UNCHANGED <<issues, payments, nextId, now>>

----------------------------------------------------------------------------
(* GET /profile (verifyFbToken): the user named by req.query.email is       *)
(* looked up case-insensitively and created when none is found.             *)

GetProfile_Start(r, caller, email) ==
  /\ CanStart(r)
  /\ reqs' = [reqs EXCEPT ![r] =
       [Protected("GET /profile", "find", caller, 0, "") EXCEPT !.target = email]]
  /\ UNCHANGED <<users, issues, payments, nextId, now>>

GetProfile_Find(r) ==
  /\ At(r, "GET /profile", "find")
  /\ IF \E e \in DOMAIN users : Lower(e) = Lower(reqs[r].target)
       THEN Answer(r, 200, "")
       ELSE Goto(r, "insert")
  /\ UNCHANGED <<users, issues, payments, nextId, now>>

\* newUser has no role field
GetProfile_Insert(r) ==
  /\ At(r, "GET /profile", "insert")
  /\ users' = InsertUser(reqs[r].target,
                         [role |-> Undefined, isPremium |-> FALSE, copies |-> 1])
  /\ Answer(r, 200, "")
  /\ UNCHANGED <<issues, payments, nextId, now>>

----------------------------------------------------------------------------
(* GET /staff/issues/:email (verifyFbToken) *)

\* staffCollection: the registered district of each staff member.  No route
\* modelled here writes it.
StaffDistrict(email) == IF email = "s" THEN "north" ELSE "south"

\* The same query with the district left out of its second branch
StaffIssues_anyDistrict(staffEmail, staffDistrict) ==
  {id \in DOMAIN issues :
     \/ IsSome(issues[id].assignedTo) /\ issues[id].assignedTo[1].email = staffEmail
     \/ issues[id].status = "Pending"}

\* find({$or: [{"assignedTo.email": staffEmail},
\*             {reporterDistrict: staffDistrict, status: "Pending"}]})
StaffIssues(staffEmail, staffDistrict) ==
  {id \in DOMAIN issues :
     \/ IsSome(issues[id].assignedTo) /\ issues[id].assignedTo[1].email = staffEmail
     \/ /\ issues[id].reporterDistrict = Some(staffDistrict)
        /\ issues[id].status = "Pending"}

GetStaffIssues_Start(r, caller, email) ==
  /\ CanStart(r)
  /\ LET q == [Protected("GET /staff/issues/:email", "findStaff", caller, 0, "")
                 EXCEPT !.target = email] IN
       reqs' = [reqs EXCEPT ![r] =
         IF q.pc # "done" /\ email # q.email THEN Respond(q, 403, "Forbidden") ELSE q]
  /\ UNCHANGED <<users, issues, payments, nextId, now>>

GetStaffIssues_FindStaff(r) ==
  /\ At(r, "GET /staff/issues/:email", "findStaff")
  /\ IF reqs[r].target \notin StaffEmails
       THEN Answer(r, 404, "Staff not found")
       ELSE Goto(r, "find")
  /\ UNCHANGED <<users, issues, payments, nextId, now>>

\* res.send(issues)
GetStaffIssues_Find(r) ==
  /\ At(r, "GET /staff/issues/:email", "find")
  /\ reqs' = [reqs EXCEPT ![r] =
       [Respond(@, 200, "") EXCEPT
          !.result = StaffIssues(reqs[r].target, StaffDistrict(reqs[r].target))]]
  /\ UNCHANGED <<users, issues, payments, nextId, now>>

----------------------------------------------------------------------------
(* Specifications *)

\* Bodies sent to POST /issues of part_000
StaffedBody == [NoBody EXCEPT !.assignedStaff = Some([email |-> "s"])]
VotableBody == [NoBody EXCEPT !.upvotedUsers = Some(<<>>)]
VotedBody == [NoBody EXCEPT !.upvotedUsers = Some(<<"a">>)]
AssignedBody == [NoBody EXCEPT !.assignedTo = Some([email |-> "s", name |-> Null])]

StatusInputs == {"Pending", "In-Progress", "Working", "Resolved", "Closed"}

\* The ids a client can name: those of the issues created so far
KnownIds == {id \in IssueIds : id < nextId}

\* The checkout sessions made so far: a boost session names a created issue
KnownSessions ==
  {sid \in SessionIds : IsSome(Session(sid).issueId) => Session(sid).issueId[1] \in KnownIds}

\* Issue creation, status changes, assignment and rejection
NextLifecycle ==
  \/ \E r \in Slots : Close(r)
  \/ \E r \in Slots, c \in {"b", Anonymous} : PostIssues_Start(r, c, "north")
  \/ \E r \in Slots : PostIssues_Insert(r)
  \/ \E r \in Slots, c \in {"b"}, body \in {StaffedBody} :
       LegacyPostIssues_Start(r, c, body)
  \/ \E r \in Slots : LegacyPostIssues_Insert(r)
  \/ \E r \in Slots, c \in {"a"}, id \in KnownIds, s \in StatusInputs :
       PostStatus_Start(r, c, id, s)
  \/ \E r \in Slots : PostStatus_Update(r)
  \/ \E r \in Slots : PostStatus_Timeline(r)
  \/ \E r \in Slots, c \in {"s"}, id \in KnownIds, s \in StatusInputs :
       StaffStatus_Start(r, c, id, s)
  \/ \E r \in Slots : StaffStatus_Find(r)
  \/ \E r \in Slots : StaffStatus_Update(r)
  \/ \E r \in Slots : StaffStatus_Refetch(r)
  \/ \E r \in Slots, c \in {"s"}, id \in KnownIds, s \in StatusInputs :
       PatchStatus_Start(r, c, id, s)
  \/ \E r \in Slots : PatchStatus_Find(r)
  \/ \E r \in Slots : PatchStatus_Update(r)
  \/ \E r \in Slots, c \in {"adm", "a"}, id \in KnownIds, e \in StaffEmails :
       AdminAssign_Start(r, c, id, e)
  \/ \E r \in Slots : AdminAssign_VerifyAdmin(r)
  \/ \E r \in Slots : AdminAssign_Find(r)
  \/ \E r \in Slots : AdminAssign_Update(r)
  \/ \E r \in Slots : AdminAssign_Timeline(r)
  \/ \E r \in Slots, c \in {"a"}, id \in KnownIds, e \in StaffEmails :
       PostAssign_Start(r, c, id, e)
  \/ \E r \in Slots : PostAssign_Update(r)
  \/ \E r \in Slots : PostAssign_Timeline(r)
  \/ \E r \in Slots, c \in {"adm", "a"}, id \in KnownIds, why \in {"duplicate"} :
       AdminReject_Start(r, c, id, why)
  \/ \E r \in Slots : AdminReject_VerifyAdmin(r)
  \/ \E r \in Slots : AdminReject_Find(r)
  \/ \E r \in Slots : AdminReject_Update(r)
  \/ \E r \in Slots : AdminReject_Timeline(r)
  \/ \E r \in Slots, c \in {"a"}, id \in KnownIds, why \in {"duplicate"} :
       PostReject_Start(r, c, id, why)
  \/ \E r \in Slots : PostReject_Update(r)
  \/ \E r \in Slots : PostReject_Timeline(r)

SpecLifecycle == Init /\ [][NextLifecycle]_vars

\* Issue creation and upvotes
NextUpvote ==
  \/ \E r \in Slots : Close(r)
  \/ \E r \in Slots, c \in {"b"} : PostIssues_Start(r, c, "north")
  \/ \E r \in Slots : PostIssues_Insert(r)
  \/ \E r \in Slots, c \in {"b"}, body \in {VotableBody} :
       LegacyPostIssues_Start(r, c, body)
  \/ \E r \in Slots : LegacyPostIssues_Insert(r)
  \/ \E r \in Slots, c \in {"a", "s", "b"}, id \in KnownIds : Upvote_Start(r, c, id)
  \/ \E r \in Slots : Upvote_Find(r)
  \/ \E r \in Slots : Upvote_HasVoted(r)
  \/ \E r \in Slots : Upvote_Update(r)
  \/ \E r \in Slots : Upvote_Timeline(r)

SpecUpvote == Init /\ [][NextUpvote]_vars

\* Issue creation and payment confirmations, over the connections in S
PaymentSteps(S) ==
  \/ \E r \in S : Close(r)
  \/ \E r \in S, c \in {"b"} : PostIssues_Start(r, c, "north")
  \/ \E r \in S : PostIssues_Insert(r)
  \/ \E r \in S, c \in {"a", Anonymous}, sid \in KnownSessions : Boost_Start(r, c, sid)
  \/ \E r \in S : Boost_Retrieve(r)
  \/ \E r \in S : Boost_Update(r)
  \/ \E r \in S : Boost_Insert(r)
  \/ \E r \in S : Boost_Timeline(r)
  \/ \E r \in S, c \in {"a"}, sid \in KnownSessions : Subscribe_Start(r, c, sid)
  \/ \E r \in S : Subscribe_Retrieve(r)
  \/ \E r \in S : Subscribe_Update(r)
  \/ \E r \in S : Subscribe_Insert(r)

NextPayment == PaymentSteps(Slots)

SpecPayment == Init /\ [][NextPayment]_vars

\* The same, one request at a time
NextPaymentSeq == PaymentSteps({"r1"})

SpecPaymentSeq == Init /\ [][NextPaymentSeq]_vars

\* Issue creation, a status change, and deletion
NextDelete ==
  \/ \E r \in Slots : Close(r)
  \/ \E r \in Slots, c \in {"b"} : PostIssues_Start(r, c, "north")
  \/ \E r \in Slots : PostIssues_Insert(r)
  \/ \E r \in Slots, c \in {"s"}, id \in KnownIds, s \in {"In-Progress", "Resolved"} :
       PostStatus_Start(r, c, id, s)
  \/ \E r \in Slots : PostStatus_Update(r)
  \/ \E r \in Slots : PostStatus_Timeline(r)
  \/ \E r \in Slots, c \in {"a", "b", "adm", Anonymous}, id \in KnownIds :
       Delete_Start(r, c, id)
  \/ \E r \in Slots : Delete_Find(r)
  \/ \E r \in Slots : Delete_Delete(r)
  \/ \E r \in Slots, c \in {"a", "b"}, id \in KnownIds : LegacyDelete_Start(r, c, id)
  \/ \E r \in Slots : LegacyDelete_Find(r)
  \/ \E r \in Slots : LegacyDelete_Delete(r)

SpecDelete == Init /\ [][NextDelete]_vars

\* Requests sent without a credential, on an issue that citizen b created
NextAnonymous ==
  \/ \E r \in Slots : Close(r)
  \/ \E r \in Slots, c \in {"b"} : PostIssues_Start(r, c, "north")
  \/ \E r \in Slots : PostIssues_Insert(r)
  \/ \E r \in Slots, id \in KnownIds, s \in {"Resolved"} :
       PostStatus_Start(r, Anonymous, id, s)
  \/ \E r \in Slots : PostStatus_Update(r)
  \/ \E r \in Slots : PostStatus_Timeline(r)
  \/ \E r \in Slots, id \in KnownIds, s \in {"In-Progress"} :
       PatchStatus_Start(r, Anonymous, id, s)
  \/ \E r \in Slots, id \in KnownIds : PostReject_Start(r, Anonymous, id, Undefined)
  \/ \E r \in Slots : PostReject_Update(r)
  \/ \E r \in Slots : PostReject_Timeline(r)
  \/ \E r \in Slots, id \in KnownIds : PostAssign_Start(r, Anonymous, id, "s")
  \/ \E r \in Slots : PostAssign_Update(r)
  \/ \E r \in Slots : PostAssign_Timeline(r)
  \/ \E r \in Slots, id \in KnownIds : Upvote_Start(r, Anonymous, id)
  \/ \E r \in Slots : Upvote_Find(r)
  \/ \E r \in Slots : Upvote_HasVoted(r)
  \/ \E r \in Slots : Upvote_Update(r)
  \/ \E r \in Slots : Upvote_Timeline(r)
  \/ \E r \in Slots, c \in {"b", Anonymous}, id \in KnownIds : Delete_Start(r, c, id)
  \/ \E r \in Slots : Delete_Find(r)
  \/ \E r \in Slots : Delete_Delete(r)
  \/ \E r \in Slots, sid \in KnownSessions : Subscribe_Start(r, Anonymous, sid)
  \/ \E r \in Slots : Subscribe_Retrieve(r)
  \/ \E r \in Slots : Subscribe_Update(r)
  \/ \E r \in Slots : Subscribe_Insert(r)

SpecAnonymous == Init /\ [][NextAnonymous]_vars

\* Role changes
NextRoles ==
  \/ \E r \in Slots : Close(r)
  \/ \E r \in Slots, c \in {"a", "s", "adm", Anonymous}, e \in {"a", "b", "nobody"},
        role \in Roles \cup {"root"} :
       UserRole_Start(r, c, e, role)
  \/ \E r \in Slots : UserRole_Update(r)
  \/ \E r \in Slots, c \in {"a", "s"}, role \in {"citizen", "admin"} :
       Profile_Start(r, c, role)
  \/ \E r \in Slots : Profile_Update(r)
  \/ \E r \in Slots : Profile_Refetch(r)
  \/ \E r \in Slots, c \in {"a", "adm"}, e \in {"a", "b"} : MakeAdmin_Start(r, c, e)
  \/ \E r \in Slots : MakeAdmin_VerifyAdmin(r)
  \/ \E r \in Slots : MakeAdmin_Update(r)

SpecRoles == Init /\ [][NextRoles]_vars

\* Issue creation, rejection by an admin, and a concurrent status request
NextReject ==
  \/ \E r \in Slots : Close(r)
  \/ \E r \in Slots, c \in {"b"} : PostIssues_Start(r, c, "north")
  \/ \E r \in Slots : PostIssues_Insert(r)
  \/ \E r \in Slots, c \in {"adm", "a"}, id \in KnownIds, why \in {"duplicate", Undefined} :
       AdminReject_Start(r, c, id, why)
  \/ \E r \in Slots : AdminReject_VerifyAdmin(r)
  \/ \E r \in Slots : AdminReject_Find(r)
  \/ \E r \in Slots : AdminReject_Update(r)
  \/ \E r \in Slots : AdminReject_Timeline(r)
  \/ \E r \in Slots, c \in {"s"}, id \in KnownIds, s \in {"In-Progress"} :
       PostStatus_Start(r, c, id, s)
  \/ \E r \in Slots : PostStatus_Update(r)
  \/ \E r \in Slots : PostStatus_Timeline(r)

SpecReject == Init /\ [][NextReject]_vars

\* A well-formed id that no stored issue has
MissingId == MaxIssues + 1

\* Requests that name an issue that may not exist
NextMissing ==
  \/ \E r \in Slots : Close(r)
  \/ \E r \in Slots, c \in {"b"} : PostIssues_Start(r, c, "north")
  \/ \E r \in Slots : PostIssues_Insert(r)
  \/ \E r \in Slots, id \in KnownIds \cup {MissingId} : PostReject_Start(r, "a", id, "spam")
  \/ \E r \in Slots : PostReject_Update(r)
  \/ \E r \in Slots : PostReject_Timeline(r)
  \/ \E r \in Slots, id \in KnownIds \cup {MissingId} : PostStatus_Start(r, "a", id, "Resolved")
  \/ \E r \in Slots : PostStatus_Update(r)
  \/ \E r \in Slots : PostStatus_Timeline(r)
  \/ \E r \in Slots, id \in KnownIds \cup {MissingId} : PostAssign_Start(r, "a", id, "s")
  \/ \E r \in Slots : PostAssign_Update(r)
  \/ \E r \in Slots : PostAssign_Timeline(r)
  \/ \E r \in Slots, id \in KnownIds \cup {MissingId} : Upvote_Start(r, "a", id)
  \/ \E r \in Slots : Upvote_Find(r)
  \/ \E r \in Slots : Upvote_HasVoted(r)
  \/ \E r \in Slots, id \in KnownIds \cup {MissingId} : StaffStatus_Start(r, "s", id, "Working")
  \/ \E r \in Slots : StaffStatus_Find(r)
  \/ \E r \in Slots : StaffStatus_Update(r)
  \/ \E r \in Slots : StaffStatus_Refetch(r)

SpecMissing == Init /\ [][NextMissing]_vars

\* Payment confirmations for an issue its owner may have deleted meanwhile
NextPaymentMissing ==
  \/ \E r \in Slots : Close(r)
  \/ \E r \in Slots, c \in {"b"} : PostIssues_Start(r, c, "north")
  \/ \E r \in Slots : PostIssues_Insert(r)
  \/ \E r \in Slots, c \in {"b"}, id \in KnownIds : Delete_Start(r, c, id)
  \/ \E r \in Slots : Delete_Find(r)
  \/ \E r \in Slots : Delete_Delete(r)
  \/ \E r \in Slots, c \in {"a"}, sid \in KnownSessions : Boost_Start(r, c, sid)
  \/ \E r \in Slots : Boost_Retrieve(r)
  \/ \E r \in Slots : Boost_Update(r)
  \/ \E r \in Slots : Boost_Insert(r)
  \/ \E r \in Slots : Boost_Timeline(r)
  \/ \E r \in Slots, c \in {"a"}, sid \in KnownSessions : Subscribe_Start(r, c, sid)
  \/ \E r \in Slots : Subscribe_Retrieve(r)
  \/ \E r \in Slots : Subscribe_Update(r)
  \/ \E r \in Slots : Subscribe_Insert(r)

SpecPaymentMissing == Init /\ [][NextPaymentMissing]_vars

\* Status requests whose target may be outside the enumeration, or missing
NextStatusEnum ==
  \/ \E r \in Slots : Close(r)
  \/ \E r \in Slots, c \in {"b"} : PostIssues_Start(r, c, "north")
  \/ \E r \in Slots : PostIssues_Insert(r)
  \/ \E r \in Slots, c \in {"a"}, id \in KnownIds, s \in {"Archived", Undefined, "Resolved"} :
       PostStatus_Start(r, c, id, s)
  \/ \E r \in Slots : PostStatus_Update(r)
  \/ \E r \in Slots : PostStatus_Timeline(r)
  \/ \E r \in Slots, c \in {"s"}, id \in KnownIds, s \in {"Archived", Undefined, "Working"} :
       StaffStatus_Start(r, c, id, s)
  \/ \E r \in Slots : StaffStatus_Find(r)
  \/ \E r \in Slots : StaffStatus_Update(r)
  \/ \E r \in Slots : StaffStatus_Refetch(r)
  \/ \E r \in Slots, c \in {"s"}, id \in KnownIds, s \in {"Archived", Undefined, "In-Progress"} :
       PatchStatus_Start(r, c, id, s)
  \/ \E r \in Slots : PatchStatus_Find(r)

SpecStatusEnum == Init /\ [][NextStatusEnum]_vars

\* User registration and profile reads
NextUsers ==
  \/ \E r \in Slots : Close(r)
  \/ \E r \in Slots, c \in {Anonymous}, e \in {"a", "c", "C"} : PostUsers_Start(r, c, e)
  \/ \E r \in Slots : PostUsers_Find(r)
  \/ \E r \in Slots : PostUsers_Insert(r)
  \/ \E r \in Slots, c \in {"a"}, e \in {"a", "c", "C"} : GetProfile_Start(r, c, e)
  \/ \E r \in Slots : GetProfile_Find(r)
  \/ \E r \in Slots : GetProfile_Insert(r)

SpecUsers == Init /\ [][NextUsers]_vars

\* Issues of two districts, their assignment, and the staff members' lists
NextStaffIssues ==
  \/ \E r \in Slots : Close(r)
  \/ \E r \in Slots, c \in {"b"}, d \in {"north", "south", Undefined} :
       PostIssues_Start(r, c, d)
  \/ \E r \in Slots : PostIssues_Insert(r)
  \/ \E r \in Slots, c \in {"adm"}, id \in KnownIds, e \in StaffEmails :
       AdminAssign_Start(r, c, id, e)
  \/ \E r \in Slots : AdminAssign_VerifyAdmin(r)
  \/ \E r \in Slots : AdminAssign_Find(r)
  \/ \E r \in Slots : AdminAssign_Update(r)
  \/ \E r \in Slots : AdminAssign_Timeline(r)
  \/ \E r \in Slots, c \in {"a"}, id \in KnownIds, s \in {"Resolved", "Pending"} :
       PostStatus_Start(r, c, id, s)
  \/ \E r \in Slots : PostStatus_Update(r)
  \/ \E r \in Slots : PostStatus_Timeline(r)
  \/ \E r \in Slots, c \in {"s", "t", "a"}, e \in {"s", "t", "a"} :
       GetStaffIssues_Start(r, c, e)
  \/ \E r \in Slots : GetStaffIssues_FindStaff(r)
  \/ \E r \in Slots : GetStaffIssues_Find(r)

SpecStaffIssues == Init /\ [][NextStaffIssues]_vars

\* The session ids a client can send: those of the sessions made so far, none,
\* and one the provider does not know
SentSessions == KnownSessions \cup {Undefined, "cs_gone"}

\* Issue creation and payment confirmations with and without a known session
NextSession ==
  \/ \E r \in Slots : Close(r)
  \/ \E r \in Slots, c \in {"b"} : PostIssues_Start(r, c, "north")
  \/ \E r \in Slots : PostIssues_Insert(r)
  \/ \E r \in Slots, c \in {"a"}, sid \in SentSessions : Boost_Start(r, c, sid)
  \/ \E r \in Slots : Boost_Retrieve(r)
  \/ \E r \in Slots : Boost_Update(r)
  \/ \E r \in Slots : Boost_Insert(r)
  \/ \E r \in Slots : Boost_Timeline(r)
  \/ \E r \in Slots, c \in {"a"}, sid \in SentSessions : Subscribe_Start(r, c, sid)
  \/ \E r \in Slots : Subscribe_Retrieve(r)
  \/ \E r \in Slots : Subscribe_Update(r)
  \/ \E r \in Slots : Subscribe_Insert(r)

SpecSession == Init /\ [][NextSession]_vars

\* Issue creation from several request bodies, with upvotes, boosts and
\* status changes on the created issue
NextFrame ==
  \/ \E r \in Slots : Close(r)
  \/ \E r \in Slots, c \in {"b"} : PostIssues_Start(r, c, "north")
  \/ \E r \in Slots : PostIssues_Insert(r)
  \/ \E r \in Slots, c \in {"b"}, body \in {VotableBody, VotedBody, AssignedBody} :
       LegacyPostIssues_Start(r, c, body)
  \/ \E r \in Slots : LegacyPostIssues_Insert(r)
  \/ \E r \in Slots, c \in {"a"}, id \in KnownIds : Upvote_Start(r, c, id)
  \/ \E r \in Slots : Upvote_Find(r)
  \/ \E r \in Slots : Upvote_HasVoted(r)
  \/ \E r \in Slots : Upvote_Update(r)
  \/ \E r \in Slots : Upvote_Timeline(r)
  \/ \E r \in Slots, c \in {"s"}, id \in KnownIds, s \in {"In-Progress"} :
       PostStatus_Start(r, c, id, s)
  \/ \E r \in Slots : PostStatus_Update(r)
  \/ \E r \in Slots : PostStatus_Timeline(r)
  \/ \E r \in Slots, c \in {"a"}, sid \in KnownSessions \ {"cs_sub"} :
       Boost_Start(r, c, sid)
  \/ \E r \in Slots : Boost_Retrieve(r)
  \/ \E r \in Slots : Boost_Update(r)
  \/ \E r \in Slots : Boost_Insert(r)
  \/ \E r \in Slots : Boost_Timeline(r)

SpecFrame == Init /\ [][NextFrame]_vars

\* Registration through both POST /users routes and first profile access
NextRegister ==
  \/ \E r \in Slots : Close(r)
  \/ \E r \in Slots, c \in {Anonymous}, e \in {"c", "d"} : PostUsers_Start(r, c, e)
  \/ \E r \in Slots : PostUsers_Find(r)
  \/ \E r \in Slots : PostUsers_Insert(r)
  \/ \E r \in Slots, c \in {Anonymous}, e \in {"c", "d"},
        role \in {Undefined, "citizen", "admin"} : LegacyPostUsers_Start(r, c, e, role)
  \/ \E r \in Slots : LegacyPostUsers_Find(r)
  \/ \E r \in Slots : LegacyPostUsers_Insert(r)
  \/ \E r \in Slots, c \in {"a"}, e \in {"c", "d"} : GetProfile_Start(r, c, e)
  \/ \E r \in Slots : GetProfile_Find(r)
  \/ \E r \in Slots : GetProfile_Insert(r)

SpecRegister == Init /\ [][NextRegister]_vars

\* The whole system
Next ==
  NextLifecycle \/ NextUpvote \/ NextPayment \/ NextDelete \/ NextAnonymous \/ NextRoles
  \/ NextReject \/ NextMissing \/ NextPaymentMissing
  \/ NextStatusEnum \/ NextUsers \/ NextStaffIssues \/ NextSession
  \/ NextFrame \/ NextRegister

Spec == Init /\ [][Next]_vars

----------------------------------------------------------------------------
(* Properties *)

Inflight(r) == reqs[r].pc \notin {"idle", "done"}

\* The transition table of the specification (current status, next status)
TransitionTable ==
  {<<"Pending", "In-Progress">>, <<"Pending", "Closed">>,
   <<"In-Progress", "Working">>, <<"Working", "Resolved">>,
   <<"Resolved", "Closed">>,
   <<"In-Progress", "Closed">>, <<"Working", "Closed">>}

\* The order Pending < In-Progress < Working < Resolved < Closed
Rank(status) ==
  CASE status = "Pending" -> 1
    [] status = "In-Progress" -> 2
    [] status = "Working" -> 3
    [] status = "Resolved" -> 4
    [] status = "Closed" -> 5
    [] OTHER -> 0

Kept == DOMAIN issues \cap DOMAIN issues'

\* C1: no step of any endpoint moves an issue's status to a status that the
\* transition table does not list as reachable from its current status: such
\* a request is refused and the stored status stays as it is.
C1_OnlyListedTransitions ==
  [][\A id \in Kept :
       issues'[id].status # issues[id].status
         => <<issues[id].status, issues'[id].status>> \in TransitionTable]_vars

\* C2: an issue's status never moves to an earlier state of the order
\* Pending < In-Progress < Working < Resolved < Closed; in particular a Closed
\* issue stays Closed.
C2_StatusNeverRegresses ==
  [][\A id \in Kept : Rank(issues'[id].status) >= Rank(issues[id].status)]_vars

\* C10: once an issue carries an assignment, no request replaces it.
C10_AssignmentNeverOverwritten ==
  [][\A id \in Kept :
       IsSome(issues[id].assignedTo) => issues'[id].assignedTo = issues[id].assignedTo]_vars

UpvoteRoute == "PATCH /issues/upvote/:id"
DuplicateVote == "You have already upvoted this issue"
SelfVote == "You cannot upvote your own issue"

\* C3: the stored upvote count of every issue equals the number of distinct
\* voters in its voter set.
C3_UpvotesEqualVoters ==
  \A id \in DOMAIN issues : issues[id].upvotes = Cardinality(Voters(issues[id]))

\* C4: the owner of an issue is never in its voter set, and an upvote sent by
\* the owner changes neither the count, the voter set nor the timeline and is
\* answered 400 "You cannot upvote your own issue".
C4_SelfVoteRejected ==
  [][\A r \in Slots :
       ( /\ reqs[r].route = UpvoteRoute
         /\ Inflight(r)
         /\ reqs'[r] # reqs[r]
         /\ Exists(reqs[r].id)
         /\ reqs[r].caller = issues[reqs[r].id].userEmail )
       => /\ issues' = issues
          /\ reqs'[r].pc = "done" => reqs'[r].code = 400 /\ reqs'[r].msg = SelfVote
          /\ issues[reqs[r].id].userEmail \notin Voters(issues[reqs[r].id])]_vars

\* C5: of two concurrent upvotes of one issue by two different voters, neither
\* of them its owner, each succeeds: when one is answered while the other is
\* still in flight, the answer is a success, the voter is in the voter set and
\* the count equals the number of distinct voters (a refusal as a duplicate
\* is right only for a voter who is in the voter set already).
C5_ConcurrentUpvotesBothCount ==
  \A r, o \in Slots :
    ( /\ r # o
      /\ reqs[r].route = UpvoteRoute /\ reqs[r].pc = "done"
      /\ reqs[o].route = UpvoteRoute /\ Inflight(o)
      /\ reqs[o].id = reqs[r].id
      /\ Exists(reqs[r].id)
      /\ reqs[r].caller # reqs[o].caller
      /\ issues[reqs[r].id].userEmail \notin {reqs[r].caller, reqs[o].caller} )
    => LET issue == issues[reqs[r].id] IN
         \/ /\ reqs[r].code = 200
            /\ reqs[r].caller \in Voters(issue)
            /\ issue.upvotes = Cardinality(Voters(issue))
         \/ /\ reqs[r].msg = DuplicateVote
            /\ reqs[r].caller \in Voters(issue)

\* C6: under any interleaving of upvotes, no voter occurs twice in an issue's
\* voter set.
C6_NoVoterTwice ==
  \A id \in DOMAIN issues :
    IsSome(issues[id].upvotedUsers) =>
      \A i, j \in DOMAIN issues[id].upvotedUsers[1] :
        issues[id].upvotedUsers[1][i] = issues[id].upvotedUsers[1][j] => i = j

PaymentsOf(tx) == {i \in DOMAIN payments : TxOf(payments[i]) = tx}

BoostEntries(issue) ==
  {i \in DOMAIN issue.timeline : issue.timeline[i].message = "Issue boosted by payment"}

\* C8: with one confirmation handled at a time, confirming the same checkout
\* session again stores no second payment document and appends no second
\* boost entry to the timeline.
C8_ReplayAppliesOnce ==
  /\ \A tx \in SessionIds : Cardinality(PaymentsOf(tx)) <= 1
  /\ \A id \in DOMAIN issues : Cardinality(BoostEntries(issues[id])) <= 1

\* C9: under any interleaving of confirmations, no two stored payment
\* documents carry the same external transaction id.
C9_OneRecordPerTransaction ==
  \A i, j \in DOMAIN payments :
    TxOf(payments[i]) = TxOf(payments[j]) => i = j

AdminAssignRoute == "POST /admin/issues/:id/assign"

\* C11: of two admin assign requests racing on one unassigned issue exactly
\* one succeeds: while one of them has been answered with success, no other
\* request for the same issue is past the "Already assigned" check (about to
\* write, or having written, its own assignment).
C11_OneAssignmentWins ==
  \A r, o \in Slots :
    ( /\ r # o
      /\ reqs[r].route = AdminAssignRoute /\ reqs[o].route = AdminAssignRoute
      /\ reqs[r].id = reqs[o].id
      /\ reqs[r].arg # reqs[o].arg
      /\ reqs[r].pc = "done" /\ reqs[r].code = 200 )
    => reqs[o].pc \notin {"update", "timeline"}

\* C12: an issue is removed only while its status is Pending and only by a
\* request of its owner or of an admin.
C12_DeleteOnlyPendingByOwner ==
  [][\A id \in DOMAIN issues \ DOMAIN issues' :
       /\ issues[id].status = "Pending"
       /\ \E r \in Slots :
            /\ reqs[r].id = id /\ reqs'[r] # reqs[r]
            /\ \/ reqs[r].caller = issues[id].userEmail
               \/ reqs[r].caller \in AdminEmails]_vars

StatusRoutes ==
  {"POST /issues/:id/status", "PATCH /staff/issues/:id/status", "PATCH /issues/:id/status"}

HasRole(e, role) == e \in DOMAIN users /\ users[e].role = role

\* The actors the access rules let change an issue's status: an admin, the
\* staff member the issue's assignment names, or a staff member claiming a
\* Pending issue.
MayChangeStatus(e, issue) ==
  \/ HasRole(e, "admin")
  \/ IsSome(issue.assignedTo) /\ issue.assignedTo[1].email = e
  \/ IsSome(issue.assignedStaff) /\ issue.assignedStaff[1].email = e
  \/ HasRole(e, "staff") /\ issue.status = "Pending"

\* C13: on every status-changing endpoint, a step of a request sent by an
\* actor whom the access rules do not let change the issue's status leaves
\* the issue's status and timeline unchanged.
C13_StatusChangeNeedsAuthority ==
  [][\A r \in Slots :
       ( /\ reqs[r].route \in StatusRoutes
         /\ reqs'[r] # reqs[r]
         /\ reqs[r].id \in Kept
         /\ ~MayChangeStatus(reqs[r].caller, issues[reqs[r].id]) )
       => /\ issues'[reqs[r].id].status = issues[reqs[r].id].status
          /\ issues'[reqs[r].id].timeline = issues[reqs[r].id].timeline]_vars

AdminRoutes ==
  {"POST /issues/:id/reject", "POST /admin/issues/:id/reject",
   "POST /issues/:id/assign", AdminAssignRoute}

\* C14: a rejection or an assignment takes effect only for an actor whose
\* stored role is admin: a step of such a request sent by anyone else leaves
\* every issue unchanged.
C14_RejectAndAssignByAdminOnly ==
  [][\A r \in Slots :
       ( /\ reqs[r].route \in AdminRoutes
         /\ reqs'[r] # reqs[r]
         /\ ~HasRole(reqs[r].caller, "admin") )
       => issues' = issues]_vars

\* C15: a request sent without a verified identity changes no issue, user or
\* payment record, and is answered 401.
C15_UnauthenticatedChangesNothing ==
  [][\A r \in Slots :
       (reqs'[r] # reqs[r] /\ reqs'[r].caller = Anonymous)
       => /\ UNCHANGED <<issues, users, payments>>
          /\ reqs'[r].pc = "done" => reqs'[r].code = 401]_vars

\* C16: a user's role changes only in a step of a request whose sender's
\* stored role is admin at that time.
C16_RoleChangedByAdminOnly ==
  [][\A e \in DOMAIN users :
       users'[e].role # users[e].role
         => \E r \in Slots :
              reqs'[r] # reqs[r] /\ HasRole(reqs[r].caller, "admin")]_vars

IsPrefix(s, t) == Len(s) <= Len(t) /\ SubSeq(t, 1, Len(s)) = s

\* C17: the timeline of every stored issue is non-empty from creation on, and
\* every step keeps the previous timeline as a prefix of the new one.
C17_TimelineNonEmptyAppendOnly ==
  [][\A id \in DOMAIN issues' :
       /\ Len(issues'[id].timeline) >= 1
       /\ id \in DOMAIN issues
            => IsPrefix(issues[id].timeline, issues'[id].timeline)]_vars

\* C18: in every reachable state the dates of an issue's timeline entries are
\* non-decreasing in append order.
C18_TimestampsNonDecreasing ==
  \A id \in DOMAIN issues :
    \A i, j \in DOMAIN issues[id].timeline :
      i < j => issues[id].timeline[i].date <= issues[id].timeline[j].date

\* The status of the most recent timeline entry that carries one
StatusBearing(timeline) == SelectSeq(timeline, LAMBDA item : item.status # Null)

\* C19: in every reachable state, the states between the store writes of a
\* request included, an issue's status equals the status of the most recent
\* status-bearing entry of its timeline.
C19_StatusMatchesTimeline ==
  \A id \in DOMAIN issues :
    LET entries == StatusBearing(issues[id].timeline) IN
      entries # <<>> => issues[id].status = entries[Len(entries)].status

PatchStatusRoute == "PATCH /issues/:id/status"

\* C20: the step that assigns an issue leaves its status In-Progress, and a
\* request of the staff member the assignment names for the table's next
\* step (In-Progress -> Working, Working -> Resolved) is accepted.
C20_AssignedStaffDrivesIssue ==
  [][/\ \A id \in Kept :
          (~IsSome(issues[id].assignedTo) /\ IsSome(issues'[id].assignedTo))
            => issues'[id].status = "In-Progress"
     /\ \A r \in Slots :
          ( /\ reqs[r].route = PatchStatusRoute /\ reqs[r].pc = "find"
            /\ reqs'[r] # reqs[r]
            /\ Exists(reqs[r].id)
            /\ IsSome(issues[reqs[r].id].assignedTo)
            /\ issues[reqs[r].id].assignedTo[1].email = reqs[r].caller
            /\ <<issues[reqs[r].id].status, reqs[r].arg>> \in
                 {<<"In-Progress", "Working">>, <<"Working", "Resolved">>} )
          => reqs'[r].pc = "update"]_vars

AdminRejectRoute == "POST /admin/issues/:id/reject"

\* C21: when an admin rejects a Pending issue with a reason, the request is
\* accepted, its update sets the status to Closed, and its last step appends
\* exactly one timeline entry, of status Closed and role Admin, whose message
\* holds the reason, and answers with success.
C21_RejectClosesAndRecords ==
  [][\A r \in Slots :
       ( /\ reqs[r].route = AdminRejectRoute
         /\ reqs'[r] # reqs[r]
         /\ reqs[r].arg # Undefined
         /\ Exists(reqs[r].id) )
       => LET old == issues[reqs[r].id]
              new == issues'[reqs[r].id] IN
            /\ (reqs[r].pc = "find" /\ old.status = "Pending")
                 => reqs'[r].pc = "update" /\ issues' = issues
            /\ reqs[r].pc = "update"
                 => new.status = "Closed" /\ new.timeline = old.timeline
            /\ reqs[r].pc = "timeline"
                 => /\ Len(new.timeline) = Len(old.timeline) + 1
                    /\ IsPrefix(old.timeline, new.timeline)
                    /\ new.timeline[Len(new.timeline)].status = "Closed"
                    /\ new.timeline[Len(new.timeline)].role = "Admin"
                    /\ new.timeline[Len(new.timeline)].message =
                         "Issue rejected by admin. Reason: " \o reqs[r].arg
                    /\ new.status = old.status
                    /\ reqs'[r].pc = "done" /\ reqs'[r].code = 200]_vars

\* C21 happens: the admin's rejection of a freshly created issue with reason
\* "duplicate" is answered with success; the issue is Closed and has 2 entries.
C21_Witness ==
  \E r \in Slots :
    /\ reqs[r].route = AdminRejectRoute /\ reqs[r].pc = "done" /\ reqs[r].code = 200
    /\ reqs[r].caller = "adm" /\ reqs[r].arg = "duplicate"
    /\ Exists(reqs[r].id)
    /\ issues[reqs[r].id].status = "Closed"
    /\ Len(issues[reqs[r].id].timeline) = 2
    /\ issues[reqs[r].id].timeline[2].role = "Admin"
    /\ issues[reqs[r].id].timeline[2].status = "Closed"
    /\ issues[reqs[r].id].timeline[2].message = "Issue rejected by admin. Reason: duplicate"

\* C22: an admin's rejection is accepted from every non-terminal status
\* (Pending, In-Progress, Working).
C22_RejectFromAnyNonTerminal ==
  [][\A r \in Slots :
       ( /\ reqs[r].route = AdminRejectRoute /\ reqs[r].pc = "find"
         /\ reqs'[r] # reqs[r]
         /\ Exists(reqs[r].id)
         /\ issues[reqs[r].id].status \in {"Pending", "In-Progress", "Working"} )
       => reqs'[r].pc = "update"]_vars

\* C23: a step sets or replaces an issue's assignment only when the issue is
\* Pending and unassigned, and then leaves its status In-Progress.
C23_AssignOnlyPendingUnassigned ==
  [][\A id \in Kept :
       issues'[id].assignedTo # issues[id].assignedTo
         => /\ issues[id].status = "Pending"
            /\ ~IsSome(issues[id].assignedTo)
            /\ issues'[id].status = "In-Progress"]_vars

IssueRoutes ==
  StatusRoutes \cup AdminRoutes \cup {UpvoteRoute}

\* C24: a step of a request that changes an issue's status, rejects, assigns
\* or upvotes, and names an issue that does not exist, changes no issue, and
\* the request is answered 404.
C24_MissingIssueNotFound ==
  [][\A r \in Slots :
       ( /\ reqs[r].route \in IssueRoutes
         /\ Inflight(r)
         /\ reqs'[r] # reqs[r]
         /\ ~Exists(reqs[r].id) )
       => /\ issues' = issues
          /\ reqs'[r].pc = "done" => reqs'[r].code = 404]_vars

\* The issue or the user a payment confirmation refers to is not stored
RefersToMissing(q) ==
  \/ /\ q.route = "GET /boost-success"
     /\ q.pc \in {"update", "insert", "timeline"}
     /\ ~Exists(q.id)
  \/ /\ q.route = "GET /subscribe-success"
     /\ q.pc \in {"update", "insert"}
     /\ Session(q.arg).customer_email \notin DOMAIN users

\* C25: a step of a payment confirmation whose issue (boost) or user
\* (subscription) does not exist stores no payment and changes no issue, and
\* the confirmation is answered 404.
C25_ReconcileMissingNotFound ==
  [][\A r \in Slots :
       (reqs'[r] # reqs[r] /\ RefersToMissing(reqs[r]))
       => /\ payments' = payments
          /\ issues' = issues
          /\ reqs'[r].pc = "done" => reqs'[r].code = 404]_vars

\* C26: in every reachable state the status of every issue is one of Pending,
\* In-Progress, Working, Resolved, Closed.
C26_StatusInEnumeration ==
  \A id \in DOMAIN issues : issues[id].status \in StatusInputs

\* C27: no two stored user documents share an email, compared without regard
\* to case.
C27_UserEmailUnique ==
  /\ \A e \in DOMAIN users : users[e].copies = 1
  /\ \A e, f \in DOMAIN users : Lower(e) = Lower(f) => e = f

StaffIssuesRoute == "GET /staff/issues/:email"

\* C28: the list a staff member is sent holds every issue whose assignment
\* names that staff member and every Pending issue of the staff member's
\* registered district, and no other issue.
C28_StaffCandidateSet ==
  \A r \in Slots :
    (reqs[r].route = StaffIssuesRoute /\ reqs[r].pc = "done" /\ reqs[r].code = 200)
    => LET staff == reqs[r].caller IN
         \A id \in DOMAIN issues :
           id \in reqs[r].result <=>
             \/ IsSome(issues[id].assignedTo) /\ issues[id].assignedTo[1].email = staff
             \/ /\ issues[id].status = "Pending"
                /\ IsSome(issues[id].reporterDistrict)
                /\ issues[id].reporterDistrict[1] = StaffDistrict(staff)

\* C28 happens: staff member s is sent a list that leaves out a Pending issue
\* of the other district.
C28_Witness ==
  \E r \in Slots :
    /\ reqs[r].route = StaffIssuesRoute /\ reqs[r].pc = "done" /\ reqs[r].code = 200
    /\ reqs[r].caller = "s"
    /\ \E id \in DOMAIN issues :
         /\ issues[id].status = "Pending"
         /\ issues[id].reporterDistrict = Some("south")
         /\ id \notin reqs[r].result

\* The role a timeline entry shows for a stored role
RoleTitle(role) ==
  CASE role = "admin" -> "Admin"
    [] role = "staff" -> "Staff"
    [] role = "citizen" -> "Citizen"
    [] OTHER -> "System"

\* C29: every entry a request appends to a timeline names the actor who sent
\* the request and carries that actor's stored role at that time.
C29_EntryNamesActorAndRole ==
  [][\A id \in Kept :
       Len(issues'[id].timeline) > Len(issues[id].timeline)
         => \E r \in Slots :
              /\ reqs'[r] # reqs[r]
              /\ LET item == issues'[id].timeline[Len(issues'[id].timeline)] IN
                   /\ item.updatedBy = reqs[r].caller
                   /\ reqs[r].caller \in DOMAIN users
                   /\ item.role = RoleTitle(users[reqs[r].caller].role)]_vars

\* C30: no reachable state has an issue that carries an assignment while its
\* status is Pending.
C30_AssignedNeverPending ==
  \A id \in DOMAIN issues :
    IsSome(issues[id].assignedTo) => issues[id].status # "Pending"

\* C31: no step removes an issue whose status, at that step, is other than
\* Pending, whatever other request changed the status since the delete
\* request read it.
C31_NeverDeletedPastPending ==
  [][\A id \in DOMAIN issues \ DOMAIN issues' : issues[id].status = "Pending"]_vars

\* C32: in every reachable state an issue has priority High only if a stored
\* payment document refers to it.
C32_HighPriorityHasPayment ==
  \A id \in DOMAIN issues :
    issues[id].priority = "High"
      => \E i \in DOMAIN payments : payments[i].issueId = Some(id)

\* C33: in every reachable state a user is premium only if a stored
\* subscription payment document carries that user's email.
C33_PremiumHasSubscriptionPayment ==
  \A e \in DOMAIN users :
    users[e].isPremium
      => \E i \in DOMAIN payments :
           payments[i].email = e /\ payments[i].sessionId # Undefined

PaymentRoutes == {"GET /boost-success", "GET /subscribe-success"}

\* A payment confirmation whose session id is missing or unknown to the provider
Unresolvable(q) == q.route \in PaymentRoutes /\ q.arg \notin SessionIds

\* C34: a payment confirmation that names no session, or a session the
\* provider cannot retrieve, gets no further than the retrieve call, is
\* answered with an error, and none of its steps changes a user, an issue
\* (its timeline included) or a payment.
C34_UnresolvedSessionChangesNothing ==
  [][\A r \in Slots :
       (Unresolvable(reqs'[r]) /\ reqs'[r] # reqs[r])
         => /\ UNCHANGED <<users, issues, payments>>
            /\ reqs'[r].pc \in {"retrieve", "done"}
            /\ reqs'[r].pc = "done" => reqs'[r].code \in {400, 401, 500}]_vars

\* The retrieve call has failed for a confirmation sent while an issue and a
\* resolvable confirmation's payment are stored.
C34_Witness ==
  \E r \in Slots :
    /\ Unresolvable(reqs[r])
    /\ reqs[r].arg = "cs_gone"
    /\ reqs[r].pc = "done" /\ reqs[r].code = 500
    /\ DOMAIN issues # {}
    /\ Len(payments) > 0

BoostRoute == "GET /boost-success"

\* C35: no step of an upvote or of a boost confirmation changes an issue's
\* status or assignment, and a timeline entry such a step appends carries
\* either no status or the status the issue has in the store at that step.
C35_UpvoteAndBoostKeepStatus ==
  [][\A r \in Slots :
       (reqs[r].route \in {UpvoteRoute, BoostRoute} /\ reqs'[r] # reqs[r])
         => \A id \in DOMAIN issues \cap DOMAIN issues' :
              /\ issues'[id].status = issues[id].status
              /\ issues'[id].assignedTo = issues[id].assignedTo
              /\ Len(issues'[id].timeline) > Len(issues[id].timeline)
                   => issues'[id].timeline[Len(issues'[id].timeline)].status
                        \in {Null, issues'[id].status}]_vars

\* C36: the issue a creation step stores has status Pending, priority Normal,
\* no upvotes, no voters and no assignment, and is owned by the verified
\* caller of the creating request, whatever the request body held.
C36_NewIssueHasDefaults ==
  [][\A id \in DOMAIN issues' \ DOMAIN issues :
       /\ issues'[id].status = "Pending"
       /\ issues'[id].priority = "Normal"
       /\ issues'[id].upvotes = 0
       /\ Voters(issues'[id]) = {}
       /\ ~IsSome(issues'[id].assignedTo)
       /\ \A r \in Slots :
            reqs'[r] # reqs[r] => issues'[id].userEmail = reqs[r].caller]_vars

\* C37: the user document a creation step stores, by registration or by the
\* first profile access, has neither role staff nor role admin, whatever role
\* the request supplied.
C37_CreatedUserNotElevated ==
  [][\A e \in DOMAIN users' \ DOMAIN users :
       users'[e].role \notin {"staff", "admin"}]_vars

====
